---- MODULE Spec2Model ----
(***************************************************************************)
(* A model of src/api/newsapi.js: fetchNewsSentiment, structureNewsData    *)
(* and extractThemes.                                                      *)
(*                                                                         *)
(* JavaScript values are records with a tag t.  Text (titles, descriptions *)
(* and keywords) is a sequence of one-character strings, so that           *)
(* concatenation, toLowerCase and includes are computed, not assumed.      *)
(***************************************************************************)
EXTENDS Integers, Sequences, FiniteSets, TLC

VARIABLES pc, env, response, data, themeCounts, result, fetchCalls, parseCalls, log

vars == <<pc, env, response, data, themeCounts, result, fetchCalls, parseCalls, log>>

----------------------------------------------------------------------------
(* JavaScript values *)

Undef == [t |-> "undefined", v |-> <<>>]

Null == [t |-> "null", v |-> <<>>]

Str(s) == [t |-> "string", v |-> s]

Num(n) == [t |-> "number", v |-> <<n>>]

Arr(items) == [t |-> "array", v |-> items]

Nullish(x) == x.t \in {"undefined", "null"}

\* ToBoolean, as used by `!x` and `x || y`
Truthy(x) ==
  CASE x.t \in {"undefined", "null"} -> FALSE
    [] x.t = "string" -> x.v # <<>>
    [] x.t = "number" -> x.v # <<0>>
    [] OTHER -> TRUE

\* ToString of a string, undefined or null operand of `+`
ToStr(x) ==
  CASE x.t = "string" -> x.v
    [] x.t = "undefined" -> <<"u", "n", "d", "e", "f", "i", "n", "e", "d">>
    [] x.t = "null" -> <<"n", "u", "l", "l">>

UpperChars ==
  <<"A", "B", "C", "D", "E", "F", "G", "H", "I", "J", "K", "L", "M",
    "N", "O", "P", "Q", "R", "S", "T", "U", "V", "W", "X", "Y", "Z">>

LowerChars ==
  <<"a", "b", "c", "d", "e", "f", "g", "h", "i", "j", "k", "l", "m",
    "n", "o", "p", "q", "r", "s", "t", "u", "v", "w", "x", "y", "z">>

LowerChar(c) ==
  IF \E k \in 1..Len(UpperChars) : UpperChars[k] = c
    THEN LowerChars[CHOOSE k \in 1..Len(UpperChars) : UpperChars[k] = c]
    ELSE c

\* String.prototype.toLowerCase
ToLowerCase(s) == [k \in 1..Len(s) |-> LowerChar(s[k])]

\* String.prototype.includes
Includes(text, kw) ==
  \E k \in 0..(Len(text) - Len(kw)) : SubSeq(text, k + 1, k + Len(kw)) = kw

Min(a, b) == IF a < b THEN a ELSE b

\* Array.prototype.slice(0, n)
SliceTo(s, n) == SubSeq(s, 1, Min(n, Len(s)))

----------------------------------------------------------------------------
(* extractThemes *)

\* the keys of themeKeywords in declaration order (Object.entries order)
ThemeOrder == <<"monetary_policy", "inflation", "growth", "employment", "markets">>

Themes == {ThemeOrder[k] : k \in 1..Len(ThemeOrder)}

themeKeywords == [
  monetary_policy |->
    << <<"f", "e", "d">>,
       <<"f", "e", "d", "e", "r", "a", "l", " ", "r", "e", "s", "e", "r", "v", "e">>,
       <<"p", "o", "w", "e", "l", "l">>,
       <<"i", "n", "t", "e", "r", "e", "s", "t", " ", "r", "a", "t", "e", "s">>,
       <<"h", "a", "w", "k", "i", "s", "h">>,
       <<"d", "o", "v", "i", "s", "h">>,
       <<"p", "o", "l", "i", "c", "y">> >>,
  inflation |->
    << <<"i", "n", "f", "l", "a", "t", "i", "o", "n">>,
       <<"c", "p", "i">>,
       <<"p", "r", "i", "c", "e", "s">>,
       <<"p", "c", "e">>,
       <<"d", "e", "f", "l", "a", "t", "i", "o", "n">> >>,
  growth |->
    << <<"g", "d", "p">>,
       <<"g", "r", "o", "w", "t", "h">>,
       <<"r", "e", "c", "e", "s", "s", "i", "o", "n">>,
       <<"e", "x", "p", "a", "n", "s", "i", "o", "n">>,
       <<"c", "o", "n", "t", "r", "a", "c", "t", "i", "o", "n">> >>,
  employment |->
    << <<"j", "o", "b", "s">>,
       <<"u", "n", "e", "m", "p", "l", "o", "y", "m", "e", "n", "t">>,
       <<"p", "a", "y", "r", "o", "l", "l", "s">>,
       <<"l", "a", "b", "o", "r">>,
       <<"w", "a", "g", "e", "s">> >>,
  markets |->
    << <<"s", "t", "o", "c", "k", "s">>,
       <<"e", "q", "u", "i", "t", "i", "e", "s">>,
       <<"b", "o", "n", "d", "s">>,
       <<"y", "i", "e", "l", "d", "s">>,
       <<"v", "o", "l", "a", "t", "i", "l", "i", "t", "y">> >> ]

\* (article.title + ' ' + (article.description || '')).toLowerCase()
SearchText(article) ==
  ToLowerCase(ToStr(article.title) \o <<" ">>
              \o (IF Truthy(article.description) THEN article.description.v ELSE <<>>))

\* the keywords of a theme that the text includes
MatchingKeywords(text, theme) ==
  {k \in 1..Len(themeKeywords[theme]) : Includes(text, themeKeywords[theme][k])}

\* a variant that adds 1 for every keyword of the theme in the text
IncrementPerKeyword(text, theme) == Cardinality(MatchingKeywords(text, theme))

\* what one article adds to one theme: keywords.some(...) ? 1 : 0
Increment(text, theme) == IF MatchingKeywords(text, theme) # {} THEN 1 ELSE 0

\* themeCounts is an object: a sequence of <<key, count>> in key insertion order.
CountOf(counts, theme) ==
  IF \E k \in 1..Len(counts) : counts[k][1] = theme
    THEN counts[CHOOSE k \in 1..Len(counts) : counts[k][1] = theme][2]
    ELSE 0

HasKey(counts, theme) == \E k \in 1..Len(counts) : counts[k][1] = theme

\* the inner forEach over Object.entries(themeKeywords) for one article's text:
\* themeCounts[theme] = (themeCounts[theme] || 0) + 1 for each theme that
\* matches.  A key already in the object keeps its place; new keys are added
\* behind the others, in the order the loop meets them (declaration order).
CountThemes(counts, text) ==
  LET kept == [k \in 1..Len(counts) |->
                 <<counts[k][1], counts[k][2] + Increment(text, counts[k][1])>>]
      added == SelectSeq(ThemeOrder,
                         LAMBDA th : Increment(text, th) > 0 /\ ~HasKey(counts, th))
  IN kept \o [k \in 1..Len(added) |-> <<added[k], Increment(text, added[k])>>]

RECURSIVE CountArticles(_, _, _)
\* the outer forEach, from the j-th article on; reading .title of a null
\* article throws a TypeError and leaves the counts as they are
CountArticles(counts, articles, j) ==
  IF j > Len(articles) THEN [threw |-> FALSE, counts |-> counts]
  ELSE IF Nullish(articles[j]) THEN [threw |-> TRUE, counts |-> counts]
  ELSE CountArticles(CountThemes(counts, SearchText(articles[j])), articles, j + 1)

\* a variant with the comparator reversed, (a, b) => a[1] - b[1]
AscendingPosition(entries, k) ==
  Cardinality({m \in 1..Len(entries) : entries[m][2] < entries[k][2]})
  + Cardinality({m \in 1..k : entries[m][2] = entries[k][2]})

\* where a stable descending sort puts the k-th entry
SortedPosition(entries, k) ==
  Cardinality({m \in 1..Len(entries) : entries[m][2] > entries[k][2]})
  + Cardinality({m \in 1..k : entries[m][2] = entries[k][2]})

\* .sort((a, b) => b[1] - a[1]), a stable sort
SortByCount(entries) ==
  [p \in 1..Len(entries) |->
     entries[CHOOSE k \in 1..Len(entries) : SortedPosition(entries, k) = p]]

MaxThemes == 3

\* a variant without .slice(0, 3)
TopThemesUncut(counts) ==
  LET sorted == SortByCount(counts)
  IN [p \in 1..Len(sorted) |-> sorted[p][1]]

\* Object.entries(themeCounts).sort(...).slice(0, 3).map(([theme, count]) => theme)
TopThemes(counts) ==
  LET top == SliceTo(SortByCount(counts), MaxThemes)
  IN [p \in 1..Len(top) |-> top[p][1]]

\* a variant with themeCounts one object of the module, shared by the calls:
\* a call starts from what the other call left in it
SharedThemeCounts(i) == themeCounts[3 - i]

\* const themeCounts = {}: a fresh object for every call
NewThemeCounts(i) == <<>>

\* extractThemes(articles), with themeCounts starting as the object `counts`
ExtractThemes(articles, counts) ==
  LET counted == CountArticles(counts, articles, 1)
  IN [threw |-> counted.threw,
      counts |-> counted.counts,
      themes |-> IF counted.threw THEN <<>> ELSE TopThemes(counted.counts)]

----------------------------------------------------------------------------
(* structureNewsData *)

TopN == 10

\* a => ({title: a.title, source: a.source.name, publishedAt: a.publishedAt, url: a.url})
Headline(a) ==
  [title |-> a.title, source |-> a.source.name,
   publishedAt |-> a.publishedAt, url |-> a.url]

\* the map callback throws a TypeError on a null article or a missing source
HeadlineThrows(a) == Nullish(a) \/ Nullish(a.source)

\* a variant without the .length === 0 test
NoArticlesIgnoringLength(rawData) == ~Truthy(rawData.articles)

\* !rawData.articles || rawData.articles.length === 0
NoArticles(rawData) ==
  \/ ~Truthy(rawData.articles)
  \/ rawData.articles.t \in {"array", "string"} /\ Len(rawData.articles.v) = 0

\* a variant that cuts one article later
SliceTooFar(items) == SliceTo(items, TopN + 1)

\* rawData.articles.slice(0, 10)
TopArticles(items) == SliceTo(items, TopN)

Returned(x, counts) == [threw |-> FALSE, value |-> x, counts |-> counts]

Thrown(counts) == [threw |-> TRUE, value |-> Null, counts |-> counts]

\* structureNewsData(rawData), with `now` what new Date().toISOString() gives
\* and `fresh` the object extractThemes starts its themeCounts as.  The counts
\* of the answer are what extractThemes left in themeCounts (empty when it
\* was not reached).
StructureNewsData(rawData, fresh, now) ==
  IF Nullish(rawData) THEN Thrown(<<>>)                \* rawData.articles of null
  ELSE IF rawData.t # "object" THEN Returned(Null, <<>>) \* a primitive has no articles
  ELSE IF NoArticles(rawData) THEN Returned(Null, <<>>)
  ELSE IF rawData.articles.t = "number" THEN Thrown(<<>>) \* .slice is not a function
  ELSE IF rawData.articles.t = "string"
    THEN Thrown(fresh)                                 \* articles.forEach is not a function
  ELSE
    LET articles == TopArticles(rawData.articles.v)
        extracted == ExtractThemes(articles, fresh)
    IN IF extracted.threw THEN Thrown(extracted.counts)
       ELSE IF \E k \in 1..Len(articles) : HeadlineThrows(articles[k])
         THEN Thrown(extracted.counts)
       ELSE Returned([t |-> "summary",
                      articleCount |-> Len(articles),
                      themes |-> extracted.themes,
                      headlines |-> [k \in 1..Len(articles) |-> Headline(articles[k])],
                      timestamp |-> now],
                     extracted.counts)

----------------------------------------------------------------------------
(* The inputs: configurations, thrown values, articles, response bodies *)

Inv == {1, 2}

Envs ==
  { Null, Undef,
    [t |-> "object", NEWSAPI_KEY |-> Undef],
    [t |-> "object", NEWSAPI_KEY |-> Str(<<>>)],
    [t |-> "object", NEWSAPI_KEY |-> Str(<<"k">>)] }

\* an Error with a message
Err(msg) == [t |-> "error", v |-> <<msg>>]

\* what a rejected promise or a throw can carry: an Error, an object without
\* a message, null, undefined
ThrownValues == {Err("network"), [t |-> "object", v |-> <<>>], Null, Undef}

Article(title, description, src) ==
  [t |-> "object", title |-> title, description |-> description, source |-> src,
   publishedAt |-> "2024-01-01T00:00:00Z", url |-> "u"]

Source(name) == [t |-> "object", name |-> name]

\* "Fed" / "Powell": two keywords of monetary_policy, in upper case
aFed == Article(Str(<<"F", "e", "d">>), Str(<<"P", "o", "w", "e", "l", "l">>), Source("A"))

\* "GDP", description null: growth
aGdp == Article(Str(<<"G", "D", "P">>), Null, Source("C"))

\* "gdp jobs", empty description: growth and employment
aGdpJobs ==
  Article(Str(<<"g", "d", "p", " ", "j", "o", "b", "s">>), Str(<<>>), Source("D"))

\* no title, "cpi bonds" in the description: inflation and markets
aCpiBonds ==
  Article(Undef, Str(<<"c", "p", "i", " ", "b", "o", "n", "d", "s">>), Source("E"))

\* "rain": no theme
aRain == Article(Str(<<"r", "a", "i", "n">>), Str(<<>>), Source("F"))

\* an article without a source
aNoSource == Article(Str(<<"g", "d", "p">>), Undef, Undef)

Pool == {aGdp, aGdpJobs, aCpiBonds, aNoSource, Null}

Fillers == {aRain, aFed}

MaxHead == 2

MaxArticles == 12

Heads == UNION {[1..n -> Pool] : n \in 0..MaxHead}

Rep(a, n) == [k \in 1..n |-> a]

\* how many filler articles go with a head
PadLengths(h) == 0..(MaxArticles - Len(h))

\* article lists: a head of pool articles at the front or at the back of a
\* run of one filler article
ArticleLists ==
  UNION { UNION { { h \o Rep(f, n), Rep(f, n) \o h } : n \in PadLengths(h) }
          : <<h, f>> \in Heads \X Fillers }

Body(articles) == [t |-> "object", articles |-> articles]

\* what the body of a response can parse to
OddBodies ==
  { Null, Num(5), Body(Undef), Body(Null), Body(Num(5)), Body(Num(0)),
    Body(Str(<<>>)), Body(Str(<<"a", "b", "c">>)) }

Bodies == OddBodies \cup {Body(Arr(l)) : l \in ArticleLists}

Statuses == {200, 404, 500}

\* Response.ok
Ok(status) == status \in 200..299

Fulfilled(x) == [state |-> "fulfilled", value |-> x]

Rejected(x) == [state |-> "rejected", value |-> x]

Pending == [state |-> "pending", value |-> Null]

Res(status, body) == [t |-> "response", status |-> status, ok |-> Ok(status), body |-> body]

\* how the fetch promise can settle
FetchOutcomes ==
  {Rejected(x) : x \in ThrownValues}
  \cup {Fulfilled(Res(s, b)) : <<s, b>> \in Statuses \X Bodies}

\* how response.json() can settle
JsonOutcomes(res) == {Rejected(x) : x \in ThrownValues} \cup {Fulfilled(res.body)}

Instants == {"2024-01-01T00:00:00.000Z", "2024-01-01T00:00:01.000Z"}

----------------------------------------------------------------------------
(* fetchNewsSentiment: one async call per invocation i *)

LogEntry(level, text, arg) == [level |-> level, text |-> text, arg |-> arg]

\* error.message
MessageOf(err) == IF err.t = "error" THEN Str(err.v) ELSE Undef

TypeError == Err("TypeError")

\* the catch block, lines 46-49: console.error(..., error.message); return null.
\* Reading .message of null or undefined throws a TypeError out of the block,
\* and the promise of the async function rejects with it.
Catch(err) ==
  IF Nullish(err)
    THEN [result |-> Rejected(TypeError), log |-> <<>>]
    ELSE [result |-> Fulfilled(Null),
          log |-> <<LogEntry("error", "NewsAPI fetch failed:", MessageOf(err))>>]

\* a variant that tests apiKey !== undefined
KeyIsDefined(e) == e.NEWSAPI_KEY.t # "undefined"

\* apiKey is truthy
HasCredential(e) == Truthy(e.NEWSAPI_KEY)

\* a variant without the status test
StatusIgnored(res) == FALSE

\* !response.ok
StatusFails(res) == ~res.ok

\* a variant that starts over on a non-success status
RetryOnNotOk == "start"

\* where the invocation goes after `return null` on a non-success status
OnNotOk == "done"

\* the invocation ends: its promise settles and it logs what it logged
Finish(i, outcome) ==
  /\ pc' = [pc EXCEPT ![i] = "done"]
  /\ result' = [result EXCEPT ![i] = outcome.result]
  /\ log' = [log EXCEPT ![i] = @ \o outcome.log]

\* lines 18-34: read the credential and, if there is one, issue the request
ReadCredential(i) ==
  /\ pc[i] = "start"
  /\ IF Nullish(env[i])
       THEN /\ Finish(i, Catch(TypeError))
            /\ UNCHANGED fetchCalls
       ELSE IF ~HasCredential(env[i])
         THEN /\ Finish(i, [result |-> Fulfilled(Null),
                            log |-> <<LogEntry("warn", "NEWSAPI_KEY not configured", Undef)>>])
              /\ UNCHANGED fetchCalls
         ELSE /\ pc' = [pc EXCEPT ![i] = "fetching"]
              /\ fetchCalls' = [fetchCalls EXCEPT ![i] = @ + 1]
              /\ UNCHANGED <<result, log>>
  /\ UNCHANGED <<env, response, data, themeCounts, parseCalls>>

\* the network settles the promise of fetch(...)
FetchSettles(i, outcomes) ==
  /\ pc[i] = "fetching"
  /\ \E o \in outcomes : response' = [response EXCEPT ![i] = o]
  /\ pc' = [pc EXCEPT ![i] = "fetched"]
  /\ UNCHANGED <<env, data, themeCounts, result, fetchCalls, parseCalls, log>>

\* lines 34-41: resume after `await fetch(...)`
AfterFetch(i) ==
  /\ pc[i] = "fetched"
  /\ IF response[i].state = "rejected"
       THEN /\ Finish(i, Catch(response[i].value))
            /\ UNCHANGED parseCalls
       ELSE IF StatusFails(response[i].value)
         THEN /\ pc' = [pc EXCEPT ![i] = OnNotOk]
              /\ result' = [result EXCEPT ![i] = Fulfilled(Null)]
              /\ log' = [log EXCEPT ![i] =
                           Append(@, LogEntry("warn", "NewsAPI returned",
                                              Num(response[i].value.status)))]
              /\ UNCHANGED parseCalls
         ELSE /\ pc' = [pc EXCEPT ![i] = "parsing"]
              /\ parseCalls' = [parseCalls EXCEPT ![i] = @ + 1]
              /\ UNCHANGED <<result, log>>
  /\ UNCHANGED <<env, response, data, themeCounts, fetchCalls>>

\* the promise of response.json() settles
JsonSettles(i) ==
  /\ pc[i] = "parsing"
  /\ \E o \in JsonOutcomes(response[i].value) : data' = [data EXCEPT ![i] = o]
  /\ pc' = [pc EXCEPT ![i] = "parsed"]
  /\ UNCHANGED <<env, response, themeCounts, result, fetchCalls, parseCalls, log>>

\* lines 41-49: resume after `await response.json()` and structure the data
AfterJson(i) ==
  /\ pc[i] = "parsed"
  /\ IF data[i].state = "rejected"
       THEN /\ Finish(i, Catch(data[i].value))
            /\ UNCHANGED themeCounts
       ELSE \E now \in Instants :
              LET s == StructureNewsData(data[i].value, NewThemeCounts(i), now)
              IN /\ Finish(i, IF s.threw THEN Catch(TypeError)
                                         ELSE [result |-> Fulfilled(s.value), log |-> <<>>])
                 /\ themeCounts' = [themeCounts EXCEPT ![i] = s.counts]
  /\ UNCHANGED <<env, response, data, fetchCalls, parseCalls>>

----------------------------------------------------------------------------
(* One invocation, over all the inputs *)

Idle(active) ==
  /\ pc = [i \in Inv |-> IF i \in active THEN "start" ELSE "idle"]
  /\ response = [i \in Inv |-> Pending]
  /\ data = [i \in Inv |-> Pending]
  /\ themeCounts = [i \in Inv |-> <<>>]
  /\ result = [i \in Inv |-> Pending]
  /\ fetchCalls = [i \in Inv |-> 0]
  /\ parseCalls = [i \in Inv |-> 0]
  /\ log = [i \in Inv |-> <<>>]

Init ==
  /\ Idle({1})
  /\ \E e \in Envs : env = [i \in Inv |-> IF i = 1 THEN e ELSE Undef]

Next ==
  \/ ReadCredential(1)
  \/ FetchSettles(1, FetchOutcomes)
  \/ AfterFetch(1)
  \/ JsonSettles(1)
  \/ AfterJson(1)

Spec == Init /\ [][Next]_vars

----------------------------------------------------------------------------
(* Two concurrent invocations, over a few inputs *)

WithKey == [t |-> "object", NEWSAPI_KEY |-> Str(<<"k">>)]

ConcEnvs == {[t |-> "object", NEWSAPI_KEY |-> Undef], WithKey}

ConcBodies ==
  { Body(Arr(<<>>)), Body(Arr(<<aFed>>)), Body(Arr(<<aGdp, aCpiBonds>>)),
    Body(Arr(<<aCpiBonds, aGdpJobs, Null>>)), Body(Arr(Rep(aFed, TopN + 1) \o <<aCpiBonds>>)) }

ConcFetchOutcomes ==
  {Rejected(Err("network")), Rejected(Null)}
  \cup {Fulfilled(Res(s, b)) : <<s, b>> \in Statuses \X ConcBodies}

InitConc ==
  /\ Idle(Inv)
  /\ env \in [Inv -> ConcEnvs]

NextConc ==
  \E i \in Inv :
    \/ ReadCredential(i)
    \/ FetchSettles(i, ConcFetchOutcomes)
    \/ AfterFetch(i)
    \/ JsonSettles(i)
    \/ AfterJson(i)

SpecConc == InitConc /\ [][NextConc]_vars

----------------------------------------------------------------------------
(* What the properties speak of *)

Done(i) == pc[i] = "done"

Absent(i) == result[i] = Fulfilled(Null)

HasSummary(i) == result[i].state = "fulfilled" /\ result[i].value.t = "summary"

\* the invocation got a response, and with which status
Responded(i) == response[i].state = "fulfilled"

\* the body was parsed into an object with an array of articles
ParsedList(i) ==
  /\ data[i].state = "fulfilled"
  /\ data[i].value.t = "object"
  /\ data[i].value.articles.t = "array"

Items(i) == data[i].value.articles.v

WellFormed(a) == ~Nullish(a) /\ ~Nullish(a.source)

\* the articles among the first 10 whose text contains a keyword of the theme
TextsOfFirstTen(items) ==
  <<>> \o [k \in 1..Min(10, Len(items)) |-> SearchText(items[k])]

OccurrencesIn(texts, theme) ==
  Cardinality({k \in 1..Len(texts) :
                 \E w \in 1..Len(themeKeywords[theme]) :
                    Includes(texts[k], themeKeywords[theme][w])})

Occurrences(items, theme) == OccurrencesIn(TextsOfFirstTen(items), theme)

\* the occurrences of every theme, in declaration order
OccurrenceCounts(items) ==
  CHOOSE occ \in { <<>> \o [k \in 1..Len(ThemeOrder) |-> OccurrencesIn(texts, ThemeOrder[k])]
                    : texts \in {TextsOfFirstTen(items)} } : TRUE

DeclIndex(theme) == CHOOSE k \in 1..Len(ThemeOrder) : ThemeOrder[k] = theme

InSeq(x, seq) == \E k \in 1..Len(seq) : seq[k] = x

----------------------------------------------------------------------------
\* C1: fetchNewsSentiment never throws: whatever the config, the network call
\* and the body parsing do, the promise of the call never rejects; it
\* resolves with a summary or with null.
C1_NeverRejects ==
  \A i \in Inv :
    /\ result[i].state # "rejected"
    /\ Done(i) => Absent(i) \/ HasSummary(i)

\* C2: themes with equal occurrence counts are ordered, and cut to the top 3,
\* by the declaration order of the keyword table, whichever article matched
\* which theme first.
C2_TiesInDeclarationOrder ==
  \A i \in Inv :
    HasSummary(i) =>
      \A occ \in {OccurrenceCounts(Items(i))} :
      LET themes == result[i].value.themes
          n(th) == occ[DeclIndex(th)]
          Before(a, b) == n(a) > n(b) \/ (n(a) = n(b) /\ DeclIndex(a) < DeclIndex(b))
      IN /\ \A p, q \in 1..Len(themes) : p < q => Before(themes[p], themes[q])
         /\ \A th \in Themes :
              n(th) > 0 /\ ~InSeq(th, themes) =>
                \A p \in 1..Len(themes) : Before(themes[p], th)

\* C3: when the config has no NEWSAPI_KEY (missing or empty), the call
\* returns null and no network call is issued at any point of the invocation.
C3_NoCredentialNoFetch ==
  \A i \in Inv :
    (pc[i] # "idle" /\ (Nullish(env[i]) \/ env[i].NEWSAPI_KEY \in {Undef, Null, Str(<<>>)})) =>
      /\ fetchCalls[i] = 0
      /\ pc[i] \in {"start", "done"}
      /\ Done(i) => Absent(i)

C3_Witness ==
  /\ Done(1) /\ Absent(1) /\ fetchCalls[1] = 0
  /\ ~Nullish(env[1]) /\ env[1].NEWSAPI_KEY = Str(<<>>)

\* C4: when the response's status is not a success status, the call returns
\* null whatever the body holds, and the body is not read.
C4_NonSuccessStatusIsAbsent ==
  \A i \in Inv :
    (Responded(i) /\ response[i].value.status \notin 200..299) =>
      /\ parseCalls[i] = 0
      /\ pc[i] \in {"fetched", "done"}
      /\ Done(i) => Absent(i)

C4_Witness ==
  /\ Done(1) /\ Absent(1) /\ Responded(1) /\ response[1].value.status = 500
  /\ response[1].value.body.t = "object"
  /\ response[1].value.body.articles.t = "array"
  /\ Len(response[1].value.body.articles.v) > 1
  /\ \A k \in 1..Len(response[1].value.body.articles.v) :
       WellFormed(response[1].value.body.articles.v[k])

\* C5: a parsed body whose article list is missing or empty gives null, and
\* every summary returned has an articleCount from 1 to 10.
C5_NoArticlesIsAbsent ==
  \A i \in Inv :
    /\ ( /\ Done(i) /\ data[i].state = "fulfilled" /\ data[i].value.t = "object"
         /\ \/ Nullish(data[i].value.articles)
            \/ data[i].value.articles = Arr(<<>>) )
       => Absent(i)
    /\ HasSummary(i) =>
         /\ result[i].value.articleCount \in 1..10
         /\ result[i].value.headlines # <<>>

C5_Witness ==
  /\ Done(1) /\ Absent(1) /\ ParsedList(1) /\ Items(1) = <<>>

\* C6: for a parsed list of n articles, the summary's headlines are the
\* projections {title, source.name, publishedAt, url} of the first min(10, n)
\* articles in input order, and articleCount is min(10, n); a list whose first
\* 10 articles are well-formed does give a summary.
C6_HeadlinesAreFirstTen ==
  \A i \in Inv :
    /\ HasSummary(i) =>
         LET sum == result[i].value
             items == Items(i)
         IN /\ ParsedList(i)
            /\ Len(sum.headlines) = Min(10, Len(items))
            /\ sum.articleCount = Min(10, Len(items))
            /\ \A k \in 1..Len(sum.headlines) :
                 sum.headlines[k] =
                   [title |-> items[k].title, source |-> items[k].source.name,
                    publishedAt |-> items[k].publishedAt, url |-> items[k].url]
    /\ ( /\ Done(i) /\ ParsedList(i) /\ Items(i) # <<>>
         /\ \A k \in 1..Min(10, Len(Items(i))) : WellFormed(Items(i)[k]) )
       => HasSummary(i)

C6_Witness ==
  /\ HasSummary(1) /\ Len(Items(1)) > 10
  /\ Len(result[1].value.headlines) = 10
  /\ result[1].value.headlines[1] # result[1].value.headlines[10]
  /\ Items(1)[11] # Items(1)[10]

\* C7: the count of a theme is the number of articles among the first 10
\* whose lower-cased title-plus-description contains a keyword of the theme
\* (1 per article, however many keywords match); articles after the 10th
\* change neither the counts nor the themes.
C7_CountsPerArticle ==
  \A i \in Inv :
    HasSummary(i) =>
      /\ \A occ \in {OccurrenceCounts(Items(i))} :
           \A k \in 1..Len(ThemeOrder) : CountOf(themeCounts[i], ThemeOrder[k]) = occ[k]
      /\ \A k \in 1..Len(themeCounts[i]) : themeCounts[i][k][2] > 0
      /\ result[i].value.themes = ExtractThemes(SliceTo(Items(i), 10), <<>>).themes

C7_Witness ==
  /\ HasSummary(1) /\ Len(Items(1)) > 10
  /\ Items(1)[1] = aFed
  /\ Cardinality(MatchingKeywords(SearchText(Items(1)[1]), "monetary_policy")) = 2
  /\ CountOf(themeCounts[1], "monetary_policy") = 10
  /\ WellFormed(Items(1)[11])
  /\ Includes(SearchText(Items(1)[11]), <<"c", "p", "i">>)
  /\ CountOf(themeCounts[1], "inflation") = 0

\* C8: the themes of a summary are at most 3, without duplicates, all with a
\* nonzero count, in non-increasing order of count, and no theme left out
\* has a higher count than one kept; they are as many as there are themes
\* with a nonzero count, up to 3, so none when no article matches a keyword.
C8_TopThemes ==
  \A i \in Inv :
    HasSummary(i) =>
      \A occ \in {OccurrenceCounts(Items(i))} :
      LET themes == result[i].value.themes
          n(th) == occ[DeclIndex(th)]
      IN /\ Len(themes) = Min(3, Cardinality({th \in Themes : n(th) > 0}))
         /\ \A p \in 1..Len(themes) : themes[p] \in Themes /\ n(themes[p]) > 0
         /\ \A p, q \in 1..Len(themes) : p # q => themes[p] # themes[q]
         /\ \A p, q \in 1..Len(themes) : p < q => n(themes[p]) >= n(themes[q])
         /\ \A th \in Themes :
              ~InSeq(th, themes) => \A p \in 1..Len(themes) : n(themes[p]) >= n(th)

C8_Witness ==
  /\ HasSummary(1)
  /\ Cardinality({th \in Themes : Occurrences(Items(1), th) > 0}) = 5
  /\ Len(result[1].value.themes) = 3
  /\ Occurrences(Items(1), result[1].value.themes[1])
       > Occurrences(Items(1), result[1].value.themes[2])
  /\ Occurrences(Items(1), "markets") > 0
  /\ ~InSeq("markets", result[1].value.themes)
  /\ CountOf(themeCounts[1], "monetary_policy") > 0
  /\ themeCounts[1][1][1] # "monetary_policy"

C8_NoMatchWitness ==
  /\ HasSummary(1) /\ result[1].value.themes = <<>> /\ Len(Items(1)) > 1

\* C9: an invocation issues at most one network call and parses at most
\* once, parses only after the call completed with a success status, and
\* after a failure (rejected call, non-success status, failed parse) issues
\* no further call and parses no further.
C9_SequentialNoRetry ==
  \A i \in Inv :
    /\ fetchCalls[i] <= 1
    /\ parseCalls[i] <= 1
    /\ parseCalls[i] = 1 =>
         /\ fetchCalls[i] = 1
         /\ Responded(i) /\ response[i].value.status \in 200..299
    /\ (response[i].state = "rejected" \/ (Responded(i) /\ ~response[i].value.ok)) =>
         /\ parseCalls[i] = 0 /\ data[i] = Pending
         /\ pc[i] \in {"fetched", "done"}
    /\ data[i].state = "rejected" => pc[i] \in {"parsed", "done"}
    /\ (fetchCalls[i] = 0) = (pc[i] \in {"idle", "start"} \/ (Done(i) /\ response[i] = Pending))
    /\ (parseCalls[i] = 0) = (pc[i] \notin {"parsing", "parsed"} /\ data[i] = Pending)

C9_Witness ==
  /\ Done(1) /\ fetchCalls[1] = 1 /\ parseCalls[1] = 1
  /\ data[1].state = "rejected" /\ Absent(1)

\* what invocation i gives when it runs alone, from its own config, its own
\* response and its own parsed body, the clock reading `now`
Alone(e, res, parsed, now) ==
  IF Nullish(e) \/ ~Truthy(e.NEWSAPI_KEY) THEN Fulfilled(Null)
  ELSE IF res.state = "rejected" THEN Catch(res.value).result
  ELSE IF ~res.value.ok THEN Fulfilled(Null)
  ELSE IF parsed.state = "rejected" THEN Catch(parsed.value).result
  ELSE LET s == StructureNewsData(parsed.value, <<>>, now)
       IN IF s.threw THEN Fulfilled(Null) ELSE Fulfilled(s.value)

\* C10: under every interleaving of two invocations, the result of each is
\* what it gives alone on its own config and its own response, and the theme
\* counts of each are those of its own articles.
C10_Independent ==
  \A i \in Inv :
    Done(i) =>
      /\ \E now \in Instants : result[i] = Alone(env[i], response[i], data[i], now)
      /\ HasSummary(i) =>
           \A th \in Themes : CountOf(themeCounts[i], th) = Occurrences(Items(i), th)

C10_Witness ==
  /\ Done(1) /\ Done(2) /\ HasSummary(1) /\ HasSummary(2)
  /\ Items(1) # Items(2)
  /\ result[1].value.themes # result[2].value.themes
  /\ result[1].value.themes # <<>> /\ result[2].value.themes # <<>>

====
